---- MODULE Spec2Model ----
(***************************************************************************)
(* mousestyles.path_diversity.path_features_advanced.compute_advanced      *)
(*                                                                         *)
(* The function takes one pandas DataFrame and returns a dictionary of     *)
(* five geometric features of the path it holds.  The model follows the    *)
(* function block by block; every call is one behaviour.                   *)
(*                                                                         *)
(* Numbers.  Coordinates are floats holding even integers, so that the     *)
(* bounding-box midpoint (xmin + xmax) / 2 is an integer and every         *)
(* difference, product and sum below is exact.  The irrational values are  *)
(* kept exact as well:                                                     *)
(*   - a square root sqrt(num / den) is the record [num, den] in lowest    *)
(*     terms (Root); np.linalg.norm and np.sqrt produce such values;       *)
(*   - an angle in [0, pi] is the record [sgn, num, den] of its cosine     *)
(*     sgn * sqrt(num / den); arccos is injective on [-1, 1], so two       *)
(*     angles are equal exactly when these records are.                    *)
(* Floating-point rounding is therefore outside the model.                 *)
(***************************************************************************)
EXTENDS Integers, Sequences, FiniteSets, TLC

\* the longest path passed in, and the largest coordinate (in steps of two)
MaxRows == 4
MaxCoord == 2

\* the shortest path the function accepts ("must contain at least 3 rows")
MinRows == 3

(***************************************************************************)
(* Arithmetic helpers                                                      *)
(***************************************************************************)
Abs(n) == IF n < 0 THEN -n ELSE n

Sgn(n) == IF n < 0 THEN -1 ELSE IF n = 0 THEN 0 ELSE 1

RECURSIVE Gcd(_, _)
Gcd(a, b) == IF b = 0 THEN a ELSE Gcd(b, a % b)

\* floor of the square root of a natural number
RECURSIVE ISqrtFrom(_, _)
ISqrtFrom(n, r) == IF (r + 1) * (r + 1) > n THEN r ELSE ISqrtFrom(n, r + 1)

ISqrt(n) == ISqrtFrom(n, 0)

\* sqrt(num / den), den > 0, in lowest terms
Root(num, den) ==
    LET g == Gcd(num, den)
    IN  [num |-> num \div g, den |-> den \div g]

\* a * b for two square roots
RootMul(a, b) == Root(a.num * b.num, a.den * b.den)

\* the rational value of a square root whose radicand is a perfect square,
\* as the pair <<p, q>> of p / q
RootValue(a) == <<ISqrt(a.num), ISqrt(a.den)>>

(***************************************************************************)
(* Inputs                                                                  *)
(***************************************************************************)
Coords == {2 * k : k \in 0..MaxCoord}

Corners == {0, 2}

\* paths of up to MinRows rows on the whole grid
ShortPaths == UNION {[1..n -> Coords \X Coords] : n \in 0..MinRows}

\* paths of up to MaxRows rows on the corners of the square (0,0), (2,0),
\* (2,2), (0,2)
LongPaths == UNION {[1..n -> Corners \X Corners] : n \in 0..MaxRows}

\* column orders of the frames passed in; "t" is the time column that
\* data.load_movement puts beside x and y
Layouts == {<<"x", "y">>, <<"t", "x", "y">>, <<"x", "y", "t">>,
            <<"x", "t", "y">>, <<"y", "x">>, <<"x">>, <<"y">>, <<"t">>}

\* row labels of a frame of n rows: a RangeIndex, the labels of a slice
\* such as movement[5:10], labels in descending order, and labels of which
\* the first two are equal
Labels(n, scheme) ==
    CASE scheme = "range" -> [i \in 1..n |-> i - 1]
      [] scheme = "slice" -> [i \in 1..n |-> i + 4]
      [] scheme = "descending" -> [i \in 1..n |-> n - i]
      [] scheme = "duplicate" -> [i \in 1..n |-> IF i = 1 THEN 1 ELSE i - 1]
      [] OTHER -> <<>>

Standard == [kind |-> "DataFrame", columns |-> <<"x", "y">>, scheme |-> "range"]

Shapes ==
    {[kind |-> "DataFrame", columns |-> c, scheme |-> "range"] : c \in Layouts}
    \cup {[kind |-> "DataFrame", columns |-> <<"x", "y">>, scheme |-> s] :
            s \in {"slice", "descending", "duplicate"}}
    \cup {[kind |-> "list", columns |-> <<>>, scheme |-> "none"],
          [kind |-> "dict", columns |-> <<"x", "y">>, scheme |-> "none"]}

\* the value a row holds in column c: its point's coordinate, or the row's
\* position for the time column
Cell(pts, i, c) ==
    CASE c = "x" -> pts[i][1]
      [] c = "y" -> pts[i][2]
      [] OTHER -> i

\* the object handed to compute_advanced: a DataFrame (columns, index,
\* data), a list of (x, y) tuples, or a dict of two columns
MakeInput(shape, pts) ==
    [kind |-> shape.kind,
     columns |-> shape.columns,
     index |-> Labels(Len(pts), shape.scheme),
     data |-> IF shape.kind = "list" THEN pts
              ELSE [i \in 1..Len(pts) |->
                      [j \in 1..Len(shape.columns) |-> Cell(pts, i, shape.columns[j])]]]

\* an exception: its class and, for the ones compute_advanced raises
\* itself, its message; the libraries' messages are left empty
Exc(type, msg) == [type |-> type, msg |-> msg]

NoError == Exc("", "")

(***************************************************************************)
(* pandas and numpy operations the function uses                           *)
(***************************************************************************)
\* set(path_obj.keys())
Keys(p) == {p.columns[j] : j \in 1..Len(p.columns)}

ColPos(p, c) == CHOOSE j \in 1..Len(p.columns) : p.columns[j] = c

\* path_obj.x, path_obj.y: one column, in row order
Column(p, c) == [i \in 1..Len(p.data) |-> p.data[i][ColPos(p, c)]]

RECURSIVE np_min(_)
np_min(s) ==
    IF Len(s) = 1 THEN s[1]
    ELSE LET m == np_min(Tail(s)) IN IF s[1] <= m THEN s[1] ELSE m

RECURSIVE np_max(_)
np_max(s) ==
    IF Len(s) = 1 THEN s[1]
    ELSE LET m == np_max(Tail(s)) IN IF s[1] >= m THEN s[1] ELSE m

\* path_obj.loc[label, 'x':'y']: every row carrying the label, cut to the
\* columns from 'x' to 'y' inclusive in column order (none when 'y' stands
\* before 'x').  One row is a Series, several rows are a DataFrame.
loc(p, label) ==
    LET rows == SelectSeq([i \in 1..Len(p.index) |-> i],
                          LAMBDA i : p.index[i] = label)
    IN  [k \in 1..Len(rows) |->
           SubSeq(p.data[rows[k]], ColPos(p, "x"), ColPos(p, "y"))]

\* np.linalg.norm of a vector (one row) or of a frame (Frobenius norm)
RECURSIVE SumSquares(_)
SumSquares(v) ==
    IF v = <<>> THEN 0
    ELSE v[1][1] * v[1][1] + v[1][2] * v[1][2] + SumSquares(Tail(v))

norm(v) == Root(SumSquares(v), 1)

\* np.sin of an angle in [0, pi]: sqrt(1 - cos^2)
sin(theta) == Root(theta.den - theta.num, theta.den)

RECURSIVE sum(_)
sum(s) == IF s = <<>> THEN 0 ELSE sum(SubSeq(s, 1, Len(s) - 1)) + s[Len(s)]

(***************************************************************************)
(* mousestyles.path_diversity.path_features.angle_between                  *)
(***************************************************************************)
\* arccos(clamp(dot(v1, v2) / (|v1| |v2|), -1, 1)); a vector of zero
\* magnitude leaves the angle undefined and raises
angle_between(v1, v2) ==
    LET dot == v1[1] * v2[1] + v1[2] * v2[2]
        n1 == v1[1] * v1[1] + v1[2] * v1[2]
        n2 == v2[1] * v2[1] + v2[2] * v2[2]
        sq == IF dot * dot > n1 * n2 THEN n1 * n2 ELSE dot * dot
    IN  IF n1 = 0 \/ n2 = 0
        THEN [ok |-> FALSE, errors |-> {Exc("DomainError", "")}, val |-> <<>>]
        ELSE [ok |-> TRUE, errors |-> {},
              val |-> <<[sgn |-> Sgn(dot)] @@ Root(sq, n1 * n2)>>]

(***************************************************************************)
(* The blocks of compute_advanced                                          *)
(***************************************************************************)
\* line 50: isinstance(path_obj, pd.core.frame.DataFrame)
IsDataFrame(p) == p.kind = "DataFrame"

\* line 53: set(path_obj.keys()).issuperset(['x', 'y'])
HasKeys(p) == {"x", "y"} \subseteq Keys(p)

\* (line 56 with the comparison off by one)
TooShortBelowTwo(p) == Len(p.data) < 2

\* line 56: len(path_obj) <= 2
TooShort(p) == Len(p.data) <= 2

\* (lines 50-57 with the check of the keys ahead of the check of the type)
ValidateKeysFirst(p) ==
    IF ~HasKeys(p)
    THEN Exc("ValueError", "the keys of path_obj must contain 'x', 'y'")
    ELSE IF ~IsDataFrame(p)
    THEN Exc("TypeError", "path_obj must be pandas DataFrame")
    ELSE IF TooShort(p)
    THEN Exc("ValueError", "path_obj must contain at least 3 rows")
    ELSE NoError

\* lines 50-57: the exception the validation raises, NoError when it passes
Validate(p) ==
    IF ~IsDataFrame(p)
    THEN Exc("TypeError", "path_obj must be pandas DataFrame")
    ELSE IF ~HasKeys(p)
    THEN Exc("ValueError", "the keys of path_obj must contain 'x', 'y'")
    ELSE IF TooShort(p)
    THEN Exc("ValueError", "path_obj must contain at least 3 rows")
    ELSE NoError

\* lines 60-61
EdgePoints(p) ==
    [xmin |-> np_min(Column(p, "x")), xmax |-> np_max(Column(p, "x")),
     ymin |-> np_min(Column(p, "y")), ymax |-> np_max(Column(p, "y"))]

\* (lines 64-65 with the x extent taken twice)
AreaRecSquare(e) == (e.xmax - e.xmin) * (e.xmax - e.xmin)

\* lines 64-65
AreaRec(e) == (e.xmax - e.xmin) * (e.ymax - e.ymin)

\* (lines 68-69 with the lower corner in place of the midpoint)
CenterCorner(e) == [x |-> e.xmin, y |-> e.ymin]

\* lines 68-69
Center(e) == [x |-> (e.xmin + e.xmax) \div 2, y |-> (e.ymin + e.ymax) \div 2]

\* path_obj.loc[i, 'x':'y'] - [center['x'], center['y']]: the subtraction
\* needs two columns in the slice
Vector(p, c, label) ==
    LET s == loc(p, label)
    IN  IF Len(s[1]) # 2
        THEN [ok |-> FALSE, errors |-> {Exc("ValueError", "")}, val |-> <<>>]
        ELSE [ok |-> TRUE, errors |-> {},
              val |-> [k \in 1..Len(s) |-> <<s[k][1] - c.x, s[k][2] - c.y>>]]

\* lines 72-74: one vector per entry of path_obj.index, in index order
Vectors(p, c) ==
    LET n == Len(p.index)
        each == [i \in 1..n |-> Vector(p, c, p.index[i])]
        bad == {i \in 1..n : ~each[i].ok}
    IN  IF bad # {}
        THEN each[CHOOSE i \in bad : \A j \in bad : i <= j]
        ELSE [ok |-> TRUE, errors |-> {}, val |-> [i \in 1..n |-> each[i].val]]

\* line 75
Radius(vs) == [i \in 1..Len(vs) |-> norm(vs[i])]

\* (line 78 with a guard that gives a zero vector the angle 0)
PairAngleGuarded(v1, v2) ==
    IF Len(v1) # 1 \/ Len(v2) # 1
    THEN [ok |-> FALSE, errors |-> {Exc("TypeError", ""), Exc("ValueError", "")},
          val |-> <<>>]
    ELSE IF v1[1] = <<0, 0>> \/ v2[1] = <<0, 0>>
    THEN [ok |-> TRUE, errors |-> {}, val |-> <<[sgn |-> 1, num |-> 1, den |-> 1]>>]
    ELSE angle_between(v1[1], v2[1])

\* angle_between(list(v1), list(v2)): list() of a Series is its two
\* values; list() of a DataFrame is its column labels, on which the
\* arithmetic of angle_between fails
PairAngle(v1, v2) ==
    IF Len(v1) # 1 \/ Len(v2) # 1
    THEN [ok |-> FALSE, errors |-> {Exc("TypeError", ""), Exc("ValueError", "")},
          val |-> <<>>]
    ELSE angle_between(v1[1], v2[1])

\* (lines 78-79 zipping vectors[2:] with vectors[:-2])
CenterAnglesSkipping(vs) ==
    LET n == Len(vs) - 2
        each == [i \in 1..n |-> PairAngle(vs[i + 2], vs[i])]
        bad == {i \in 1..n : ~each[i].ok}
    IN  IF bad # {}
        THEN each[CHOOSE i \in bad : \A j \in bad : i <= j]
        ELSE [ok |-> TRUE, errors |-> {}, val |-> [i \in 1..n |-> each[i].val[1]]]

\* lines 78-79: zip(vectors[1:], vectors[:-1]), the first failing pair raises
CenterAngles(vs) ==
    LET n == Len(vs) - 1
        each == [i \in 1..n |-> PairAngle(vs[i + 1], vs[i])]
        bad == {i \in 1..n : ~each[i].ok}
    IN  IF bad # {}
        THEN each[CHOOSE i \in bad : \A j \in bad : i <= j]
        ELSE [ok |-> TRUE, errors |-> {}, val |-> [i \in 1..n |-> each[i].val[1]]]

\* (line 83 without the division by 2)
AreaTermNoHalf(v1, v2, theta) ==
    LET prod == RootValue(RootMul(RootMul(v1, v2), sin(theta)))
    IN  prod[1] \div prod[2]

\* line 83: v1 * v2 * np.sin(theta) / 2
AreaTerm(v1, v2, theta) ==
    LET prod == RootMul(RootMul(v1, v2), sin(theta))
        half == RootValue(Root(prod.num, 4 * prod.den))
    IN  half[1] \div half[2]

\* (lines 82-84 zipping radius[2:] with radius[:-1]: zip stops at the
\* shorter list, so the last pair is lost)
AreaCovShiftedZip(r, angles) ==
    sum([i \in 1..(Len(r) - 2) |-> AreaTerm(r[i + 2], r[i], angles[i])])

\* lines 82-84: zip(radius[1:], radius[:-1], center_angles)
AreaCov(r, angles) ==
    sum([i \in 1..Len(angles) |-> AreaTerm(r[i + 1], r[i], angles[i])])

\* (lines 87-90 with index[-2] for the end point)
AbsDistanceSecondLast(p) ==
    LET initial == loc(p, p.index[1])[1]
        end == loc(p, p.index[Len(p.index) - 1])[1]
    IN  Root((end[1] - initial[1]) * (end[1] - initial[1])
             + (end[2] - initial[2]) * (end[2] - initial[2]), 1)

\* lines 87-90
AbsDistance(p) ==
    LET initial == loc(p, p.index[1])[1]
        end == loc(p, p.index[Len(p.index)])[1]
    IN  Root((end[1] - initial[1]) * (end[1] - initial[1])
             + (end[2] - initial[2]) * (end[2] - initial[2]), 1)

\* lines 92-94
Result(r, angles, cov, rec, dist) ==
    [radius |-> r, center_angles |-> angles, area_cov |-> cov,
     area_rec |-> rec, abs_distance |-> dist]

\* the whole call: what it raises, or the dictionary it returns
compute_advanced(p) ==
    IF Validate(p) # NoError
    THEN [status |-> "raised", errors |-> {Validate(p)}, value |-> <<>>]
    ELSE LET e == EdgePoints(p)
             vs == Vectors(p, Center(e))
             angles == CenterAngles(vs.val)
         IN  IF ~vs.ok
             THEN [status |-> "raised", errors |-> vs.errors, value |-> <<>>]
             ELSE IF ~angles.ok
             THEN [status |-> "raised", errors |-> angles.errors, value |-> <<>>]
             ELSE [status |-> "returned", errors |-> {},
                   value |-> <<Result(Radius(vs.val), angles.val,
                                      AreaCov(Radius(vs.val), angles.val),
                                      AreaRec(e), AbsDistance(p))>>]

(***************************************************************************)
(* One call of compute_advanced, block by block                            *)
(***************************************************************************)
VARIABLES path_obj, pc, error, edge_points, area_rec, center, vectors,
          radius, center_angles, area_cov, abs_distance, result

vars == <<path_obj, pc, error, edge_points, area_rec, center, vectors,
          radius, center_angles, area_cov, abs_distance, result>>

\* The call's argument: a frame of x and y under a RangeIndex holding a
\* short path on the grid or a long path on the corners, or an argument of
\* any other shape holding a long path on the corners.
\* the locals are unbound until their block runs; the model holds a zero
\* or an empty list in their place
Init ==
    /\ \E shape \in Shapes, pts \in ShortPaths \cup LongPaths :
          /\ shape = Standard \/ pts \in LongPaths
          /\ path_obj = MakeInput(shape, pts)
    /\ pc = "validate"
    /\ error = NoError
    /\ edge_points = [xmin |-> 0, xmax |-> 0, ymin |-> 0, ymax |-> 0]
    /\ area_rec = 0
    /\ center = [x |-> 0, y |-> 0]
    /\ vectors = <<>>
    /\ radius = <<>>
    /\ center_angles = <<>>
    /\ area_cov = 0
    /\ abs_distance = Root(0, 1)
    /\ result = <<>>

Raise(e) ==
    /\ pc' = "raised"
    /\ error' = e

\* lines 50-57
CheckInput ==
    /\ pc = "validate"
    /\ \/ /\ Validate(path_obj) # NoError
          /\ Raise(Validate(path_obj))
       \/ /\ Validate(path_obj) = NoError
          /\ pc' = "compute"
          /\ error' = error
    /\ UNCHANGED <<path_obj, edge_points, area_rec, center, vectors, radius,
                   center_angles, area_cov, abs_distance, result>>

\* lines 60-94: an exception leaves the call with nothing bound; a return
\* hands back the five features
Compute ==
    /\ pc = "compute"
    /\ LET e == EdgePoints(path_obj)
           vs == Vectors(path_obj, Center(e))
           angles == CenterAngles(vs.val)
       IN  \/ /\ ~vs.ok
              /\ \E err \in vs.errors : Raise(err)
              /\ UNCHANGED <<edge_points, area_rec, center, vectors, radius,
                             center_angles, area_cov, abs_distance, result>>
           \/ /\ vs.ok
              /\ ~angles.ok
              /\ \E err \in angles.errors : Raise(err)
              /\ UNCHANGED <<edge_points, area_rec, center, vectors, radius,
                             center_angles, area_cov, abs_distance, result>>
           \/ /\ vs.ok
              /\ angles.ok
              /\ edge_points' = e
              /\ area_rec' = AreaRec(e)
              /\ center' = Center(e)
              /\ vectors' = vs.val
              /\ radius' = Radius(vs.val)
              /\ center_angles' = angles.val
              /\ area_cov' = AreaCov(radius', center_angles')
              /\ abs_distance' = AbsDistance(path_obj)
              /\ result' = <<Result(radius', center_angles', area_cov',
                                    area_rec', abs_distance')>>
              /\ pc' = "returned"
              /\ error' = error
    /\ UNCHANGED path_obj

Next ==
    \/ CheckInput
    \/ Compute

Spec == Init /\ [][Next]_vars

\* the blocks, run one after another, give what the whole call gives
Sequential ==
    /\ pc = "returned" =>
         /\ compute_advanced(path_obj).status = "returned"
         /\ compute_advanced(path_obj).value = result
    /\ pc = "raised" =>
         /\ compute_advanced(path_obj).status = "raised"
         /\ error \in compute_advanced(path_obj).errors
         /\ result = <<>>

(***************************************************************************)
(* Vocabulary of the properties                                            *)
(***************************************************************************)
Done == pc \in {"returned", "raised"}

FiveKeys == {"radius", "center_angles", "area_cov", "area_rec", "abs_distance"}

ValidationMessages ==
    {"path_obj must be pandas DataFrame",
     "the keys of path_obj must contain 'x', 'y'",
     "path_obj must contain at least 3 rows"}

\* the call went past line 57
PassedValidation ==
    \/ pc \in {"compute", "returned"}
    \/ pc = "raised" /\ error.msg \notin ValidationMessages

\* the (x, y) of every row of a frame, in row order, read by column name
XY(p) == [i \in 1..Len(p.data) |->
            <<p.data[i][ColPos(p, "x")], p.data[i][ColPos(p, "y")]>>]

SetMin(S) == CHOOSE m \in S : \A k \in S : m <= k

SetMax(S) == CHOOSE m \in S : \A k \in S : m >= k

\* twice the bounding-box midpoint of a path
Mid2(pts) ==
    LET xs == {pts[i][1] : i \in 1..Len(pts)}
        ys == {pts[i][2] : i \in 1..Len(pts)}
    IN  <<SetMin(xs) + SetMax(xs), SetMin(ys) + SetMax(ys)>>

\* twice the displacement of row i from the bounding-box midpoint
Arm2(pts, i) == <<2 * pts[i][1] - Mid2(pts)[1], 2 * pts[i][2] - Mid2(pts)[2]>>

Cross(a, b) == a[1] * b[2] - a[2] * b[1]

Reverse(s) == [i \in 1..Len(s) |-> s[Len(s) + 1 - i]]

\* the same frame with its rows (labels and data) in the opposite order
ReversedInput(p) == [p EXCEPT !.index = Reverse(p.index), !.data = Reverse(p.data)]

\* a frame of the x and y columns alone under a RangeIndex, same rows
Canonical(p) == MakeInput(Standard, XY(p))

(***************************************************************************)
(* C1.  An argument that is not a DataFrame is refused with TypeError, a   *)
(* DataFrame without column x or without column y with ValueError; in both *)
(* cases nothing has been computed and nothing is returned.                *)
(***************************************************************************)
C1_RejectsInvalidKinds ==
    pc # "validate" =>
      /\ path_obj.kind # "DataFrame" =>
           /\ pc = "raised"
           /\ error.type = "TypeError"
           /\ result = <<>> /\ vectors = <<>> /\ radius = <<>>
      /\ (path_obj.kind = "DataFrame" /\ ~({"x", "y"} \subseteq Keys(path_obj))) =>
           /\ pc = "raised"
           /\ error.type = "ValueError"
           /\ result = <<>> /\ vectors = <<>> /\ radius = <<>>

\* a list of three (x, y) tuples was refused with TypeError
C1_Witness ==
    /\ pc = "raised"
    /\ path_obj.kind = "list"
    /\ Len(path_obj.data) = 3
    /\ error.type = "TypeError"

(***************************************************************************)
(* C2.  A DataFrame with columns x and y is refused for its length, with   *)
(* ValueError, exactly when it has 0, 1 or 2 rows; with 3 or more rows it  *)
(* passes the validation.                                                  *)
(***************************************************************************)
C2_LengthBoundary ==
    (pc # "validate" /\ path_obj.kind = "DataFrame"
       /\ {"x", "y"} \subseteq Keys(path_obj)) =>
      IF Len(path_obj.data) <= 2
      THEN /\ pc = "raised"
           /\ error = Exc("ValueError", "path_obj must contain at least 3 rows")
           /\ result = <<>>
      ELSE PassedValidation

\* a frame of x and y with two rows was refused for its length
C2_Witness ==
    /\ pc = "raised"
    /\ path_obj.kind = "DataFrame"
    /\ Len(path_obj.data) = 2
    /\ error = Exc("ValueError", "path_obj must contain at least 3 rows")

(***************************************************************************)
(* C3.  Whenever the call returns, on a frame of N rows (N >= 3), it       *)
(* returns one mapping with exactly the keys radius, center_angles,        *)
(* area_cov, area_rec and abs_distance, in which radius has N entries and  *)
(* center_angles has N - 1.                                                *)
(***************************************************************************)
C3_ResultShape ==
    pc = "returned" =>
      /\ Len(result) = 1
      /\ DOMAIN result[1] = FiveKeys
      /\ Len(path_obj.data) >= 3
      /\ DOMAIN result[1].radius = 1..Len(path_obj.data)
      /\ DOMAIN result[1].center_angles = 1..(Len(path_obj.data) - 1)

C3_Witness ==
    /\ pc = "returned"
    /\ Len(path_obj.data) = 3
    /\ Len(result[1].radius) = 3
    /\ Len(result[1].center_angles) = 2

\* line 73 formed one radius vector per row, and one of them is (0, 0)
ZeroRadiusVector ==
    /\ PassedValidation
    /\ LET vs == Vectors(path_obj, Center(EdgePoints(path_obj)))
       IN  /\ vs.ok
           /\ \A i \in 1..Len(vs.val) : Len(vs.val[i]) = 1
           /\ \E i \in 1..Len(vs.val) : vs.val[i][1] = <<0, 0>>

C5_RadiusFromMidpoint ==
    pc = "returned" =>
      LET pts == XY(path_obj)
      IN  /\ 2 * center.x = Mid2(pts)[1]
          /\ 2 * center.y = Mid2(pts)[2]
          /\ \A i \in 1..Len(pts) :
               /\ result[1].radius[i].den = 1
               /\ 4 * result[1].radius[i].num =
                    Arm2(pts, i)[1] * Arm2(pts, i)[1]
                    + Arm2(pts, i)[2] * Arm2(pts, i)[2]

\* three corners of the square (0,0), (2,0), (2,2), (0,2): the midpoint
\* (1, 1) is not the mean of the points, and every squared radius is 2
C5_Witness ==
    /\ pc = "returned"
    /\ XY(path_obj) = <<<<0, 0>>, <<2, 0>>, <<2, 2>>>>
    /\ center = [x |-> 1, y |-> 1]
    /\ \A i \in 1..3 : result[1].radius[i] = [num |-> 2, den |-> 1]

(***************************************************************************)
(* C6.  Whenever the call returns, area_rec is (xmax - xmin) * (ymax -     *)
(* ymin) with the extrema taken over all rows; it is never negative, and   *)
(* it is 0 when all rows share one x or all rows share one y.              *)
(***************************************************************************)
C6_AreaRec ==
    pc = "returned" =>
      LET pts == XY(path_obj)
          xs == {pts[i][1] : i \in 1..Len(pts)}
          ys == {pts[i][2] : i \in 1..Len(pts)}
      IN  /\ result[1].area_rec =
               (SetMax(xs) - SetMin(xs)) * (SetMax(ys) - SetMin(ys))
          /\ result[1].area_rec >= 0
          /\ (Cardinality(xs) = 1 \/ Cardinality(ys) = 1) => result[1].area_rec = 0

\* a path up and down one vertical line has a rectangle of area 0
C6_Witness ==
    /\ pc = "returned"
    /\ Cardinality({XY(path_obj)[i][1] : i \in 1..Len(path_obj.data)}) = 1
    /\ Cardinality({XY(path_obj)[i][2] : i \in 1..Len(path_obj.data)}) > 1
    /\ result[1].area_rec = 0

\* the absolute, and the signed, cross products of the first n adjacent
\* pairs of radius vectors, each four times its value
RECURSIVE SumAbsCross2(_, _)
SumAbsCross2(pts, n) ==
    IF n = 0 THEN 0
    ELSE SumAbsCross2(pts, n - 1) + Abs(Cross(Arm2(pts, n + 1), Arm2(pts, n)))

RECURSIVE SumCross2(_, _)
SumCross2(pts, n) ==
    IF n = 0 THEN 0
    ELSE SumCross2(pts, n - 1) + Cross(Arm2(pts, n + 1), Arm2(pts, n))

(***************************************************************************)
(* C7.  Whenever the call returns, area_cov is the sum, over the adjacent  *)
(* rows i and i + 1, of radius[i+1] * radius[i] * sin(center_angles[i])    *)
(* / 2, which is half the absolute cross product of the two radius         *)
(* vectors; no term is negative, so turns in opposite directions do not    *)
(* cancel.                                                                 *)
(***************************************************************************)
C7_AreaCov ==
    pc = "returned" =>
      LET pts == XY(path_obj)
          r == result[1].radius
          a == result[1].center_angles
      IN  /\ 8 * result[1].area_cov = SumAbsCross2(pts, Len(pts) - 1)
          /\ result[1].area_cov >= 0
          /\ \A i \in 1..(Len(pts) - 1) :
               /\ AreaTerm(r[i + 1], r[i], a[i]) >= 0
               /\ 8 * AreaTerm(r[i + 1], r[i], a[i])
                    = Abs(Cross(Arm2(pts, i + 1), Arm2(pts, i)))

\* a turn to the left followed by the same turn to the right: the signed
\* cross products cancel, the area covered does not
C7_Witness ==
    /\ pc = "returned"
    /\ SumCross2(XY(path_obj), Len(path_obj.data) - 1) = 0
    /\ result[1].area_cov > 0

(***************************************************************************)
(* C8.  Whenever the call returns, abs_distance is the Euclidean distance  *)
(* between the first and the last row by position: abs_distance^2 =        *)
(* (x_last - x_first)^2 + (y_last - y_first)^2.  It is never negative, is  *)
(* 0 when the two rows coincide, and no row in between enters it.          *)
(***************************************************************************)
C8_AbsDistance ==
    pc = "returned" =>
      LET pts == XY(path_obj)
          first == pts[1]
          last == pts[Len(pts)]
      IN  /\ result[1].abs_distance.den = 1
          /\ result[1].abs_distance.num =
               (last[1] - first[1]) * (last[1] - first[1])
               + (last[2] - first[2]) * (last[2] - first[2])
          /\ result[1].abs_distance.num >= 0
          /\ first = last => result[1].abs_distance.num = 0

\* a path that leaves its first point and comes back to it
C8_Witness ==
    /\ pc = "returned"
    /\ XY(path_obj)[1] = XY(path_obj)[Len(path_obj.data)]
    /\ XY(path_obj)[2] # XY(path_obj)[1]
    /\ result[1].abs_distance = Root(0, 1)

(***************************************************************************)
(* C9.  Whenever the call returns on a frame, it also returns on the frame *)
(* with the rows in the opposite order, with the same abs_distance,        *)
(* area_rec and area_cov, and with radius and center_angles reversed:      *)
(* center_angles[i] of the one is center_angles[N - 1 - i] of the other.   *)
(***************************************************************************)
C9_Reversal ==
    pc = "returned" =>
      LET rev == compute_advanced(ReversedInput(path_obj))
      IN  /\ rev.status = "returned"
          /\ rev.value[1].abs_distance = result[1].abs_distance
          /\ rev.value[1].area_rec = result[1].area_rec
          /\ rev.value[1].area_cov = result[1].area_cov
          /\ rev.value[1].radius = Reverse(result[1].radius)
          /\ rev.value[1].center_angles = Reverse(result[1].center_angles)

\* a path whose radii and angles do not read the same in both directions
C9_Witness ==
    /\ pc = "returned"
    /\ result[1].radius # Reverse(result[1].radius)
    /\ result[1].center_angles # Reverse(result[1].center_angles)
    /\ XY(ReversedInput(path_obj)) # XY(path_obj)

(***************************************************************************)
(* C10.  The outcome of the call depends only on the (x, y) of the rows in *)
(* row order: a frame that passes the validation gives what the frame of   *)
(* its x and y columns alone under a RangeIndex gives, whatever its other  *)
(* columns, its column order and its row labels.                           *)
(***************************************************************************)
C10_DependsOnlyOnXY ==
    (Done /\ PassedValidation) =>
      LET plain == compute_advanced(Canonical(path_obj))
      IN  /\ plain.status = pc
          /\ plain.status = "returned" => plain.value = result

====
